---- MODULE Spec2Model ----
(***************************************************************************)
(* Adadelta optimizer of megengine/optimizer/adadelta.py.                  *)
(*                                                                         *)
(* Tensors are modelled as scalars in fixed point: the integer x stands    *)
(* for the real number x / Scale.  A result that is not a finite number    *)
(* (a division by zero, the square root of a negative number, and every    *)
(* operation on such a result) is the single value NaN.                    *)
(***************************************************************************)
EXTENDS Integers, Sequences, FiniteSets, TLC

\* ------------------------------------------------------------- bounds
NumParams == 2          \* parameters of the model being optimized
NumGroups == 2          \* parameter groups given to the constructor
MaxSteps  == 2          \* calls of step()
Scale     == 16         \* fixed-point denominator

Params   == 1 .. NumParams
One      == Scale
Half     == Scale \div 2
Quarter  == Scale \div 4

\* ------------------------------------------------- tensor arithmetic
NaN == 0 - (Scale * Scale * Scale * Scale)

Add(a, b) == IF a = NaN \/ b = NaN THEN NaN ELSE a + b
Sub(a, b) == IF a = NaN \/ b = NaN THEN NaN ELSE a - b
Mul(a, b) == IF a = NaN \/ b = NaN THEN NaN ELSE (a * b) \div Scale
Div(a, b) == IF a = NaN \/ b = NaN \/ b = 0 THEN NaN ELSE (a * Scale) \div b

RECURSIVE ISqrtBetween(_, _, _)
\* the largest r in lo .. hi with r * r <= n
ISqrtBetween(n, lo, hi) ==
    IF lo >= hi THEN lo
    ELSE LET mid == (lo + hi + 1) \div 2
         IN  IF mid * mid <= n THEN ISqrtBetween(n, mid, hi)
                               ELSE ISqrtBetween(n, lo, mid - 1)

Sqrt(a) == IF a = NaN \/ a < 0 THEN NaN ELSE ISqrtBetween(a * Scale, 0, a * Scale)

\* ------------------------------------------------------------- state
VARIABLES
    value,          \* Parameter -> its tensor
    requires_grad,  \* Parameter -> BOOLEAN
    grad,           \* param.grad: a function on the parameters whose grad is a Buffer
    param_groups,   \* self.param_groups: sequence of group records
    state,          \* self._state: a function on the parameters that have state
    grad_skip,      \* self._grad_skip: set of parameter identities
    pc,             \* "new" | "ctor_failed" | "idle" | "updates" | "done"
    gi,             \* index of the group step() is in
    pi,             \* index in the group's params of the next parameter of the loop
    outcome,        \* how the last step() ended: "none" | "ok" | "TypeError" | "AssertionError"
    nsteps,         \* number of step() calls so far
    args,           \* the arguments the constructor was called with
    applied,        \* Parameter -> number of updates applied to it in the current step()
    nupdates,       \* Parameter -> number of updates applied to it since construction
    slots,          \* the Buffer held in each square_avg and acc_delta entry of self._state
    heap,           \* Buffer -> its contents
    value0, state0, grad0, skip0    \* value, state, grad, grad_skip when step() was called

vars == << value, requires_grad, grad, param_groups, state, grad_skip, pc, gi, pi,
           outcome, nsteps, args, applied, nupdates, slots, heap,
           value0, state0, grad0, skip0 >>

Empty == [x \in {} |-> 0]

\* param.__wrapped__: the identity under which a parameter is kept in the skip set
Wrapped(p) == p

HyperNames == {"lr", "rho", "eps", "weight_decay"}

\* ------------------------------------------------------- construction
\* ValidHyper without the upper bound of rho
ValidHyperNoUpperRho(lr, rho, eps, weight_decay) ==
    /\ lr >= 0
    /\ rho >= 0
    /\ eps >= 0
    /\ weight_decay >= 0

\* the assertions of __init__
ValidHyper(lr, rho, eps, weight_decay) ==
    /\ lr >= 0
    /\ rho >= 0 /\ rho <= One
    /\ eps >= 0
    /\ weight_decay >= 0

Defaults(lr, rho, eps, weight_decay) ==
    [lr |-> lr, rho |-> rho, eps |-> eps, weight_decay |-> weight_decay]

\* a group record of the constructor's params, completed with the defaults
GroupOf(rec, defaults) ==
    [params       |-> rec.params,
     lr           |-> IF "lr" \in DOMAIN rec.over THEN rec.over["lr"] ELSE defaults.lr,
     rho          |-> IF "rho" \in DOMAIN rec.over THEN rec.over["rho"] ELSE defaults.rho,
     eps          |-> IF "eps" \in DOMAIN rec.over THEN rec.over["eps"] ELSE defaults.eps,
     weight_decay |-> IF "weight_decay" \in DOMAIN rec.over
                      THEN rec.over["weight_decay"] ELSE defaults.weight_decay]

\* self._add_state(param, name): a zero-initialised slot
AddState == 0

\* _create_state: the three slots of every parameter of the group
CreateState(param_group, st) ==
    LET ps == {param_group.params[i] : i \in 1 .. Len(param_group.params)}
    IN  [p \in (DOMAIN st) \cup ps |->
            IF p \in ps
            THEN [square_avg |-> AddState, acc_delta |-> AddState, step |-> 0]
            ELSE st[p]]

\* the Buffers _add_state made for the square_avg and acc_delta of parameter p
CreatedSlots(p) == [square_avg |-> 2 * p - 1, acc_delta |-> 2 * p]

\* the Buffer in each slot of a newly created state mapping, and their contents
SlotsOf(st) == [p \in DOMAIN st |-> CreatedSlots(p)]
HeapOf(st) ==
    [b \in UNION {{CreatedSlots(p).square_avg, CreatedSlots(p).acc_delta} : p \in DOMAIN st}
        |-> AddState]

RECURSIVE CreateStates(_, _, _)
\* the state after _create_state on groups i .. Len(groups)
CreateStates(groups, i, st) ==
    IF i > Len(groups) THEN st
    ELSE CreateStates(groups, i + 1, CreateState(groups[i], st))

\* super().__init__(params, defaults): the groups registered, their state created
Registered(records, defaults) ==
    LET groups == [i \in 1 .. Len(records) |-> GroupOf(records[i], defaults)]
    IN  [param_groups |-> groups, state |-> CreateStates(groups, 1, Empty)]

\* __init__: the outcome of a constructor call
Constructed(a) ==
    IF ValidHyper(a.lr, a.rho, a.eps, a.weight_decay)
    THEN [ok |-> TRUE]
         @@ Registered(a.params, Defaults(a.lr, a.rho, a.eps, a.weight_decay))
    ELSE [ok |-> FALSE, param_groups |-> << >>, state |-> Empty]

\* ------------------------------------------------------------ update
\* Visit taking a missing gradient as a reason to pass over the parameter
VisitGradOptional(p, skip, grads, rg) ==
    IF Wrapped(p) \in skip THEN "skip"
    ELSE IF p \notin DOMAIN grads THEN "continue"
    ELSE IF ~rg[p] THEN "continue"
    ELSE "update"

\* Visit without the requires_grad test
VisitNoRequiresGrad(p, skip, grads, rg) ==
    IF Wrapped(p) \in skip THEN "skip"
    ELSE IF p \notin DOMAIN grads THEN "raise"
    ELSE "update"

\* Visit with the gradient test before the skip test
VisitGradFirst(p, skip, grads, rg) ==
    IF p \notin DOMAIN grads THEN "raise"
    ELSE IF Wrapped(p) \in skip THEN "skip"
    ELSE IF ~rg[p] THEN "continue"
    ELSE "update"

\* what one iteration of the loop of _updates does with param:
\* "skip" | "raise" | "continue" | "update"
Visit(p, skip, grads, rg) ==
    IF Wrapped(p) \in skip THEN "skip"
    ELSE IF p \notin DOMAIN grads THEN "raise"
    ELSE IF ~rg[p] THEN "continue"
    ELSE "update"

\* SkipRemoved emptying the skip set
SkipCleared(skip, p) == {}

\* self._grad_skip.remove(param.__wrapped__)
SkipRemoved(skip, p) == skip \ {Wrapped(p)}

\* WeightDecayed with the decay term left out
WeightDecayedIgnored(g, param, weight_decay) == g

\* grad = param.grad; if weight_decay != 0.0: grad += param * weight_decay
WeightDecayed(g, param, weight_decay) ==
    IF weight_decay # 0 THEN Add(g, Mul(param, weight_decay)) ELSE g

\* square_avg = rho * square_avg + (1 - rho) * grad ** 2
SquareAvgNew(rho, square_avg, g) ==
    Add(Mul(rho, square_avg), Mul(Sub(One, rho), Mul(g, g)))

\* Std without eps under the root
StdNoEps(square_avg, eps) == Sqrt(square_avg)

\* std = sqrt(square_avg + eps)
Std(square_avg, eps) == Sqrt(Add(square_avg, eps))

\* delta = sqrt(acc_delta + eps) / std * grad
Delta(acc_delta, eps, std, g) == Mul(Div(Sqrt(Add(acc_delta, eps)), std), g)

\* param -= lr * delta
ParamNew(param, lr, delta) == Sub(param, Mul(lr, delta))

\* acc_delta = rho * acc_delta + (1 - rho) * delta ** 2
AccDeltaNew(rho, acc_delta, delta) ==
    Add(Mul(rho, acc_delta), Mul(Sub(One, rho), Mul(delta, delta)))

\* Update on freshly initialised slots instead of the ones in the state
UpdateFreshState(group, param, g, states) ==
    LET g1    == WeightDecayed(g, param, group.weight_decay)
        sq1   == SquareAvgNew(group.rho, AddState, g1)
        std   == Std(sq1, group.eps)
        delta == Delta(AddState, group.eps, std, g1)
    IN  [value |-> ParamNew(param, group.lr, delta),
         grad  |-> g1,
         std   |-> std,
         state |-> [square_avg |-> sq1,
                    acc_delta  |-> AccDeltaNew(group.rho, AddState, delta),
                    step       |-> 1]]

\* Update with delta computed from the square_avg read from the state, not the new one
UpdateStaleSquareAvg(group, param, g, states) ==
    LET g1    == WeightDecayed(g, param, group.weight_decay)
        sq1   == SquareAvgNew(group.rho, states.square_avg, g1)
        std   == Std(states.square_avg, group.eps)
        delta == Delta(states.acc_delta, group.eps, std, g1)
    IN  [value |-> ParamNew(param, group.lr, delta),
         grad  |-> g1,
         std   |-> std,
         state |-> [square_avg |-> sq1,
                    acc_delta  |-> AccDeltaNew(group.rho, states.acc_delta, delta),
                    step       |-> states.step + 1]]

\* Update with step += 1.0 not reaching the step slot
UpdateNoStepCount(group, param, g, states) ==
    LET g1    == WeightDecayed(g, param, group.weight_decay)
        sq1   == SquareAvgNew(group.rho, states.square_avg, g1)
        std   == Std(sq1, group.eps)
        delta == Delta(states.acc_delta, group.eps, std, g1)
    IN  [value |-> ParamNew(param, group.lr, delta),
         grad  |-> g1,
         std   |-> std,
         state |-> [square_avg |-> sq1,
                    acc_delta  |-> AccDeltaNew(group.rho, states.acc_delta, delta),
                    step       |-> states.step]]

\* the update of one parameter: the new param, param.grad and states
Update(group, param, g, states) ==
    LET g1    == WeightDecayed(g, param, group.weight_decay)
        sq1   == SquareAvgNew(group.rho, states.square_avg, g1)
        std   == Std(sq1, group.eps)
        delta == Delta(states.acc_delta, group.eps, std, g1)
    IN  [value |-> ParamNew(param, group.lr, delta),
         grad  |-> g1,
         std   |-> std,
         state |-> [square_avg |-> sq1,
                    acc_delta  |-> AccDeltaNew(group.rho, states.acc_delta, delta),
                    step       |-> states.step + 1]]

\* Iteration without the continue of the skip branch: the identity is removed
\* and the rest of the body runs
IterationNoContinue(group, p, skip, values, grads, states, rg) ==
    LET kind == Visit(p, {}, grads, rg)
        u    == Update(group, values[p], grads[p], states[p])
    IN  [kind      |-> kind,
         grad_skip |-> SkipRemoved(skip, p),
         value     |-> IF kind = "update" THEN [values EXCEPT ![p] = u.value] ELSE values,
         grad      |-> IF kind = "update" THEN [grads EXCEPT ![p] = u.grad] ELSE grads,
         state     |-> IF kind = "update" THEN [states EXCEPT ![p] = u.state] ELSE states]

\* Iteration committing the new parameter value and not the new state
IterationValueOnly(group, p, skip, values, grads, states, rg) ==
    LET kind == Visit(p, skip, grads, rg)
        u    == Update(group, values[p], grads[p], states[p])
    IN  [kind      |-> kind,
         grad_skip |-> IF kind = "skip" THEN SkipRemoved(skip, p) ELSE skip,
         value     |-> IF kind = "update" THEN [values EXCEPT ![p] = u.value] ELSE values,
         grad      |-> IF kind = "update" THEN [grads EXCEPT ![p] = u.grad] ELSE grads,
         state     |-> states]

\* the body of the loop of _updates for param p: which branch it takes, and the
\* skip set, the parameters, their gradients and the state it leaves
Iteration(group, p, skip, values, grads, states, rg) ==
    LET kind == Visit(p, skip, grads, rg)
        u    == Update(group, values[p], grads[p], states[p])
    IN  [kind      |-> kind,
         grad_skip |-> IF kind = "skip" THEN SkipRemoved(skip, p) ELSE skip,
         value     |-> IF kind = "update" THEN [values EXCEPT ![p] = u.value] ELSE values,
         grad      |-> IF kind = "update" THEN [grads EXCEPT ![p] = u.grad] ELSE grads,
         state     |-> IF kind = "update" THEN [states EXCEPT ![p] = u.state] ELSE states]

\* the state entries assigned new Buffers instead of the old ones being reset
RebindSlots(p, sl, hp, states) ==
    LET n  == Cardinality(DOMAIN hp)
        nw == [square_avg |-> n + 1, acc_delta |-> n + 2]
    IN  [slots |-> [sl EXCEPT ![p] = nw],
         heap  |-> [b \in DOMAIN hp \cup {n + 1, n + 2} |->
                       IF b = n + 1 THEN states.square_avg
                       ELSE IF b = n + 2 THEN states.acc_delta
                       ELSE hp[b]]]

\* states["square_avg"]._reset(square_avg); states["acc_delta"]._reset(acc_delta):
\* the Buffers in the two slots of p get the new contents
ResetSlots(p, sl, hp, states) ==
    [slots |-> sl,
     heap  |-> [hp EXCEPT ![sl[p].square_avg] = states.square_avg,
                          ![sl[p].acc_delta]  = states.acc_delta]]

\* SkipDrained with the assertion left out
SkipDrainedUnchecked(skip) == TRUE

\* assert len(self._grad_skip) == 0, at the end of _updates
SkipDrained(skip) == Cardinality(skip) = 0

\* ------------------------------------------------------- the inputs
RECURSIVE SeqOf(_)
\* the members of a set of parameters in registration order
SeqOf(S) ==
    IF S = {} THEN << >>
    ELSE LET m == CHOOSE x \in S : \A y \in S : x <= y
         IN  << m >> \o SeqOf(S \ {m})

\* the ways of giving parameters to n groups (0: to none), no group empty
Layouts(n) ==
    {l \in [Params -> 0 .. n] : \A g \in 1 .. n : \E p \in Params : l[p] = g}

Records(l, n, overs) ==
    [g \in 1 .. n |-> [params |-> SeqOf({p \in Params : l[p] = g}), over |-> overs[g]]]

GradVals == {0, Half}

\* gradients a backward pass may leave: a Buffer on some parameters, none on the others
Grads == UNION {[S -> GradVals] : S \in SUBSET Params}

\* ------------------------------------------------------------ actions
Init ==
    /\ value = [p \in Params |-> One]
    /\ requires_grad \in [Params -> BOOLEAN]
    /\ grad = Empty
    /\ grad_skip = {}
    /\ \E n \in 1 .. NumGroups : \E l \in Layouts(n) :
       \E eps \in {0, Quarter} : \E weight_decay \in {0, Half} :
          /\ args = [params |-> Records(l, n, [g \in 1 .. n |-> Empty]),
                     lr |-> One, rho |-> Half, eps |-> eps,
                     weight_decay |-> weight_decay]
          /\ Constructed(args).ok
          /\ param_groups = Constructed(args).param_groups
          /\ state = Constructed(args).state
    /\ slots = SlotsOf(state)
    /\ heap = HeapOf(state)
    /\ nupdates = [p \in Params |-> 0]
    /\ pc = "idle"
    /\ gi = 0 /\ pi = 0
    /\ outcome = "none"
    /\ nsteps = 0
    /\ applied = [p \in Params |-> 0]
    /\ value0 = value /\ state0 = state /\ grad0 = grad /\ skip0 = grad_skip

Idle == pc \in {"idle", "done"}

\* the backward pass (external): attaches gradients
Backward ==
    /\ Idle
    /\ \E gs \in Grads : grad' = gs
    /\ pc' = "idle"
    /\ UNCHANGED << value, requires_grad, param_groups, state, grad_skip, gi, pi,
                    outcome, nsteps, args, applied, nupdates, slots, heap,
                    value0, state0, grad0, skip0 >>

\* gradient-skip registration (external): marks a parameter identity
SkipRegister ==
    /\ Idle
    /\ \E p \in Params : grad_skip' = grad_skip \cup {Wrapped(p)}
    /\ pc' = "idle"
    /\ UNCHANGED << value, requires_grad, grad, param_groups, state, gi, pi,
                    outcome, nsteps, args, applied, nupdates, slots, heap,
                    value0, state0, grad0, skip0 >>

\* step() is called: it goes to _updates of the first group
StepCall ==
    /\ Idle
    /\ nsteps < MaxSteps
    /\ nsteps' = nsteps + 1
    /\ pc' = "updates"
    /\ gi' = 1 /\ pi' = 1
    /\ outcome' = "none"
    /\ applied' = [p \in Params |-> 0]
    /\ value0' = value /\ state0' = state /\ grad0' = grad /\ skip0' = grad_skip
    /\ UNCHANGED << value, requires_grad, grad, param_groups, state, grad_skip, args,
                    nupdates, slots, heap >>

\* one iteration of the loop of _updates
UpdatesParam ==
    /\ pc = "updates"
    /\ pi <= Len(param_groups[gi].params)
    /\ LET p == param_groups[gi].params[pi]
           r == Iteration(param_groups[gi], p, grad_skip, value, grad, state,
                          requires_grad)
       IN  /\ grad_skip' = r.grad_skip
           /\ value' = r.value
           /\ grad' = r.grad
           /\ state' = r.state
           /\ pc' = IF r.kind = "raise" THEN "done" ELSE "updates"
           /\ outcome' = IF r.kind = "raise" THEN "TypeError" ELSE outcome
           /\ pi' = IF r.kind = "raise" THEN pi ELSE pi + 1
           /\ applied' = IF r.kind = "update" THEN [applied EXCEPT ![p] = @ + 1]
                                              ELSE applied
           /\ nupdates' = IF r.kind = "update" THEN [nupdates EXCEPT ![p] = @ + 1]
                                               ELSE nupdates
           /\ slots' = IF r.kind = "update"
                        THEN ResetSlots(p, slots, heap, r.state[p]).slots ELSE slots
           /\ heap' = IF r.kind = "update"
                       THEN ResetSlots(p, slots, heap, r.state[p]).heap ELSE heap
    /\ UNCHANGED << requires_grad, param_groups, gi, nsteps, args,
                    value0, state0, grad0, skip0 >>

\* the end of _updates: the assertion, then the next group or the end of step()
UpdatesEnd ==
    /\ pc = "updates"
    /\ pi > Len(param_groups[gi].params)
    /\ IF ~SkipDrained(grad_skip)
       THEN /\ pc' = "done" /\ outcome' = "AssertionError"
            /\ UNCHANGED << gi, pi >>
       ELSE IF gi < Len(param_groups)
       THEN /\ gi' = gi + 1 /\ pi' = 1
            /\ UNCHANGED << pc, outcome >>
       ELSE /\ pc' = "done" /\ outcome' = "ok"
            /\ UNCHANGED << gi, pi >>
    /\ UNCHANGED << value, requires_grad, grad, param_groups, state, grad_skip,
                    nsteps, args, applied, nupdates, slots, heap,
                    value0, state0, grad0, skip0 >>

Next == Backward \/ SkipRegister \/ StepCall \/ UpdatesParam \/ UpdatesEnd

Spec == Init /\ [][Next]_vars


\* ------------------------------------------------- the constructor call
LrMenu  == {0 - One, 0, One}
RhoMenu == {0 - Half, 0, One, One + Half}
EpsMenu == {0 - Quarter, 0, Quarter}
WdMenu  == {0 - Half, 0, Half}

Menu(k) == IF k = "lr" THEN LrMenu ELSE IF k = "rho" THEN RhoMenu
           ELSE IF k = "eps" THEN EpsMenu ELSE WdMenu

\* the hyperparameter overrides of one group record: none, or one named value
Overrides == {Empty} \cup UNION {[{k} -> Menu(k)] : k \in HyperNames}

\* the overrides of n group records, at most one record overriding
OverridesOf(n) ==
    {o \in [1 .. n -> Overrides] : \A g, h \in 1 .. n : o[g] = Empty \/ o[h] = Empty \/ g = h}

NoArgs == [params |-> << >>, lr |-> 0, rho |-> 0, eps |-> 0, weight_decay |-> 0]

InitNew ==
    /\ value = [p \in Params |-> One]
    /\ requires_grad \in [Params -> BOOLEAN]
    /\ grad = Empty
    /\ grad_skip = {}
    /\ args = NoArgs
    /\ param_groups = << >>
    /\ state = Empty
    /\ slots = Empty
    /\ heap = Empty
    /\ nupdates = [p \in Params |-> 0]
    /\ pc = "new"
    /\ gi = 0 /\ pi = 0
    /\ outcome = "none"
    /\ nsteps = 0
    /\ applied = [p \in Params |-> 0]
    /\ value0 = value /\ state0 = state /\ grad0 = grad /\ skip0 = grad_skip

\* Adadelta(params, lr, rho, eps, weight_decay)
Construct ==
    /\ pc = "new"
    /\ \E n \in 1 .. NumGroups : \E l \in Layouts(n) : \E o \in OverridesOf(n) :
       \E lr \in LrMenu : \E rho \in RhoMenu : \E eps \in EpsMenu : \E wd \in WdMenu :
          LET a == [params |-> Records(l, n, o), lr |-> lr, rho |-> rho, eps |-> eps,
                    weight_decay |-> wd]
              c == Constructed(a)
          IN  /\ args' = a
              /\ pc' = IF c.ok THEN "idle" ELSE "ctor_failed"
              /\ param_groups' = c.param_groups
              /\ state' = c.state
              /\ state0' = c.state
              /\ slots' = SlotsOf(c.state)
              /\ heap' = HeapOf(c.state)
    /\ UNCHANGED << value, requires_grad, grad, grad_skip, gi, pi, outcome, nsteps,
                    applied, nupdates, value0, grad0, skip0 >>

SpecCtor == InitNew /\ [][Construct]_vars


\* ------------------------------------------------------------ properties
\* the parameters that are in some group
GroupParams(g) == {param_groups[g].params[i] : i \in 1 .. Len(param_groups[g].params)}

Members == UNION {GroupParams(g) : g \in DOMAIN param_groups}

\* the parameters the loop of the step in progress (or just ended) has gone past
Passed ==
    IF pc \in {"updates", "done"}
    THEN UNION {GroupParams(g) : g \in 1 .. (gi - 1)}
         \cup {param_groups[gi].params[i] : i \in 1 .. (pi - 1)}
    ELSE {}

\* the slots of p in the state mapping st and in st2 are the same
SameSlots(p, st, st2) ==
    /\ (p \in DOMAIN st) = (p \in DOMAIN st2)
    /\ p \in DOMAIN st => st[p] = st2[p]

\* C1: a parameter whose identity is in the skip set when step() starts has, after
\* a completed step(), the value and the state slots it had before, and its
\* identity is no longer in the skip set.
C1_SkippedUnchanged ==
    (pc = "done" /\ outcome = "ok") =>
        \A p \in Params : Wrapped(p) \in skip0 =>
            /\ value[p] = value0[p]
            /\ SameSlots(p, state, state0)
            /\ Wrapped(p) \notin grad_skip

\* a completed step() that skipped a parameter it would otherwise have updated,
\* and updated another one
C1_Witness ==
    /\ pc = "done" /\ outcome = "ok"
    /\ \E p \in Members : /\ Wrapped(p) \in skip0 /\ requires_grad[p]
                          /\ p \in DOMAIN grad0 /\ grad0[p] # 0
    /\ \E q \in Params : applied[q] > 0 /\ value[q] # value0[q]

\* C2 (as claimed): with two or more groups, a step() whose skip set holds only
\* identities of group members, and whose other requires_grad parameters all have
\* gradients, ends without the consistency error and with the skip set empty.
C2_CheckedAtEndOfStep ==
    (/\ pc = "done"
     /\ Len(param_groups) >= 2
     /\ \A id \in skip0 : \E p \in Members : Wrapped(p) = id
     /\ \A p \in Members : (Wrapped(p) \notin skip0 /\ requires_grad[p])
                               => p \in DOMAIN grad0)
    => /\ outcome # "AssertionError"
       /\ outcome = "ok" => grad_skip = {}

\* the skip set holds the identity of a parameter that is in no group
Stray(skip) == \E p \in Params \ Members : Wrapped(p) \in skip

C4_GradRequired ==
    /\ \A p \in Passed : (Wrapped(p) \notin skip0 /\ requires_grad[p])
                             => p \in DOMAIN grad0
    /\ \A p \in Params : applied[p] > 0 => p \in DOMAIN grad0
    /\ (pc = "done" /\ outcome = "TypeError") =>
           LET p == param_groups[gi].params[pi]
           IN  /\ p \notin DOMAIN grad0
               /\ applied[p] = 0 /\ value[p] = value0[p] /\ SameSlots(p, state, state0)

\* a step() that updated a parameter and then failed on a requires_grad parameter
\* that has no gradient
C4_Witness ==
    /\ pc = "done" /\ outcome = "TypeError"
    /\ requires_grad[param_groups[gi].params[pi]]
    /\ Wrapped(param_groups[gi].params[pi]) \notin skip0
    /\ \E q \in Params : applied[q] > 0

\* C5 (as claimed): a parameter with requires_grad = false that is not in the skip
\* set is passed over without error, with or without a gradient: the usage error
\* is never raised on such a parameter.
C5_NoGradNoError ==
    (pc = "done" /\ outcome = "TypeError") =>
        requires_grad[param_groups[gi].params[pi]]

\* C6 (as claimed): the state mapping has no entry for a parameter with
\* requires_grad = false.
C6_NoStateWithoutRequiresGrad ==
    \A p \in Params : ~requires_grad[p] => p \notin DOMAIN state

\* C7: the value of a parameter with requires_grad = false is its value at
\* construction, whatever steps were made.
C7_FrozenValue ==
    \A p \in Params : ~requires_grad[p] => value[p] = One

\* a completed step() that went past a requires_grad = false parameter carrying a
\* non-zero gradient, and changed another parameter
C7_Witness ==
    /\ pc = "done" /\ outcome = "ok"
    /\ \E p \in Members : /\ ~requires_grad[p] /\ Wrapped(p) \notin skip0
                          /\ p \in DOMAIN grad0 /\ grad0[p] # 0
    /\ \E q \in Params : applied[q] > 0 /\ value[q] # value0[q]

\* C8 (as claimed): step() leaves every parameter's gradient as it was.
C8_GradUntouched ==
    pc \in {"updates", "done"} => grad = grad0

\* the ranges the hyperparameters are documented to have
InRange(lr, rho, eps, weight_decay) ==
    lr >= 0 /\ 0 <= rho /\ rho <= One /\ eps >= 0 /\ weight_decay >= 0

\* C9: construction succeeds for every in-range lr, rho, eps, weight_decay, and
\* fails, with no group and no state created, when one of them is out of range.
C9_Construction ==
    pc # "new" =>
        IF InRange(args.lr, args.rho, args.eps, args.weight_decay)
        THEN /\ pc = "idle"
             /\ Len(param_groups) = Len(args.params)
        ELSE /\ pc = "ctor_failed"
             /\ param_groups = << >>
             /\ state = Empty

\* a construction that failed on rho alone
C9_Witness ==
    /\ pc = "ctor_failed"
    /\ args.rho > One
    /\ args.lr >= 0 /\ args.eps >= 0 /\ args.weight_decay >= 0

\* C10 (as claimed): every group of a constructed optimizer has in-range
\* hyperparameters, overrides of group records included.
C10_GroupsInRange ==
    \A g \in DOMAIN param_groups :
        InRange(param_groups[g].lr, param_groups[g].rho, param_groups[g].eps,
                param_groups[g].weight_decay)

\* the parameter the loop of _updates is at
Cur == param_groups[gi].params[pi]

\* the loop of _updates is about to apply the update rule to Cur
Updating ==
    /\ pc = "updates"
    /\ pi <= Len(param_groups[gi].params)
    /\ Visit(Cur, grad_skip, grad, requires_grad) = "update"

\* the divisor std of the update about to be applied
CurStd == Update(param_groups[gi], value[Cur], grad[Cur], state[Cur]).std

\* C11 (as claimed): in every update of an optimizer that construction accepted,
\* the divisor std is strictly positive.
C11_StdPositive ==
    Updating => CurStd > 0

\* C11 (amended): in every update of a group whose eps is strictly positive (and
\* whose rho is in [0, 1]), the divisor std is strictly positive.
C11_StdPositiveIfEps ==
    (/\ Updating
     /\ param_groups[gi].eps > 0
     /\ param_groups[gi].rho >= 0 /\ param_groups[gi].rho <= One)
    => CurStd > 0

\* an update, in a second step, in which std is the root of eps alone: the
\* running average of squared gradients is and stays zero
C11_Witness ==
    /\ Updating
    /\ nsteps = 2
    /\ param_groups[gi].eps > 0
    /\ state[Cur].step = 1
    /\ state[Cur].square_avg = 0
    /\ grad[Cur] = 0 /\ param_groups[gi].weight_decay = 0

\* C12: a completed step() applies the update rule exactly once to every parameter
\* of the optimizer that has requires_grad = true and is not in the skip set, and
\* never to another parameter; a parameter's step counter is the number of
\* updates applied to it, at most one in each step.
C12_OncePerStep ==
    /\ (pc = "done" /\ outcome = "ok") =>
          \A p \in Params :
              applied[p] = IF p \in Members /\ requires_grad[p] /\ Wrapped(p) \notin skip0
                           THEN 1 ELSE 0
    /\ \A p \in Params : applied[p] <= 1 /\ nupdates[p] <= nsteps
    /\ \A p \in DOMAIN state : state[p].step = nupdates[p]

\* a second step that completed, with a parameter updated in both steps and a
\* requires_grad parameter updated in one only
C12_Witness ==
    /\ pc = "done" /\ outcome = "ok" /\ nsteps = 2
    /\ \E p \in Members : state[p].step = 2
    /\ \E q \in Members : requires_grad[q] /\ state[q].step = 1

\* the group parameter p is in
GroupFor(p) == param_groups[CHOOSE g \in DOMAIN param_groups : p \in GroupParams(g)]

\* what the update rule makes of parameter p as it was when step() was called
Update0(p) == Update(GroupFor(p), value0[p], grad0[p], state0[p])

\* C13: when step() fails with the gradient-missing error at parameter p, every
\* parameter before p has been fully updated (value and state) or passed over
\* unchanged, and p and every parameter after it have the value and the state
\* slots they had when step() was called.
C13_FailureLeavesWholeUpdates ==
    (pc = "done" /\ outcome = "TypeError") =>
        /\ Cur \notin Passed
        /\ \A q \in Params :
              IF applied[q] > 0
              THEN /\ q \in Passed
                   /\ value[q] = Update0(q).value
                   /\ state[q] = Update0(q).state
              ELSE /\ value[q] = value0[q]
                   /\ SameSlots(q, state, state0)

\* a step() that changed the value and the state of its first parameter and then
\* failed on the next one
C13_Witness ==
    /\ pc = "done" /\ outcome = "TypeError"
    /\ \E q \in Passed : /\ applied[q] = 1
                         /\ value[q] # value0[q]
                         /\ state[q].square_avg # state0[q].square_avg
    /\ value[Cur] = value0[Cur]

\* g' of the update of parameter p in this step: g + weight_decay * param, from
\* the gradient and the parameter as they were when step() was called
DecayedGrad0(p) ==
    IF GroupFor(p).weight_decay # 0
    THEN Add(grad0[p], Mul(value0[p], GroupFor(p).weight_decay))
    ELSE grad0[p]

\* rho * old + (1 - rho) * x ^ 2
RunningAvg(rho, old, x) == Add(Mul(rho, old), Mul(Sub(One, rho), Mul(x, x)))

\* C14: the update of a step uses g' = g + weight_decay * param (param before the
\* update) when weight_decay # 0 and g otherwise, and g' is what enters both the
\* new square_avg and delta.
C14_DecayedGradUsed ==
    \A p \in Params : applied[p] = 1 =>
        LET G     == GroupFor(p)
            g1    == DecayedGrad0(p)
            sq1   == RunningAvg(G.rho, state0[p].square_avg, g1)
            delta == Mul(Div(Sqrt(Add(state0[p].acc_delta, G.eps)),
                             Sqrt(Add(sq1, G.eps))), g1)
        IN  /\ state[p].square_avg = sq1
            /\ value[p] = Sub(value0[p], Mul(G.lr, delta))

\* an update with weight decay of a parameter that has a zero gradient: only the
\* decay term moves it
C14_Witness ==
    \E p \in Params :
        /\ applied[p] = 1
        /\ GroupFor(p).weight_decay # 0
        /\ grad0[p] = 0
        /\ value[p] # value0[p] /\ value[p] # NaN

\* C17: within one update, square_avg' comes from the old square_avg and g', delta
\* from the new square_avg' and the old acc_delta, param' = param - lr * delta,
\* acc_delta' from the old acc_delta and delta; square_avg' and acc_delta' are
\* what the state holds afterwards.
C17_DependencyOrder ==
    \A p \in Params : applied[p] = 1 =>
        LET G     == GroupFor(p)
            g1    == DecayedGrad0(p)
            old   == state0[p]
            sq1   == RunningAvg(G.rho, old.square_avg, g1)
            std   == Sqrt(Add(sq1, G.eps))
            delta == Mul(Div(Sqrt(Add(old.acc_delta, G.eps)), std), g1)
            acc1  == RunningAvg(G.rho, old.acc_delta, delta)
        IN  /\ value[p] = Sub(value0[p], Mul(G.lr, delta))
            /\ state[p] = [square_avg |-> sq1, acc_delta |-> acc1,
                           step |-> old.step + 1]

\* a second update of a parameter, where the old and the new square_avg differ and
\* the old and the new acc_delta differ
C17_Witness ==
    \E p \in Params :
        /\ applied[p] = 1
        /\ state0[p].step = 1
        /\ state0[p].square_avg # 0 /\ state0[p].acc_delta # 0
        /\ state[p].square_avg # state0[p].square_avg
        /\ state[p].acc_delta # state0[p].acc_delta
        /\ state[p].acc_delta # NaN

\* the slots as _create_state makes them
FreshSlots == [square_avg |-> 0, acc_delta |-> 0, step |-> 0]

\* g' of the update the loop is about to apply to Cur
DecayedGradCur ==
    IF param_groups[gi].weight_decay # 0
    THEN Add(grad[Cur], Mul(value[Cur], param_groups[gi].weight_decay))
    ELSE grad[Cur]

\* the slots of p change in this step of the program
SlotsChange(p) == state'[p] # state[p]

\* C15: the slots of a parameter are zero until its first update, no parameter
\* gets or loses slots after construction, and the slots only ever change by an
\* update of that parameter, which computes the new square_avg and acc_delta from
\* the ones then in the state (those the last update wrote) and counts the step.
C15_SlotsInitialisedOnce ==
    /\ [](\A p \in DOMAIN state : nupdates[p] = 0 => state[p] = FreshSlots)
    /\ [][/\ DOMAIN state' = DOMAIN state
          /\ \A p \in DOMAIN state : SlotsChange(p) =>
                /\ Updating /\ p = Cur
                /\ state'[p].step = state[p].step + 1
                /\ state'[p].square_avg =
                      RunningAvg(param_groups[gi].rho, state[p].square_avg, DecayedGradCur)
                /\ state'[p].acc_delta =
                      RunningAvg(param_groups[gi].rho, state[p].acc_delta,
                                 Mul(Div(Sqrt(Add(state[p].acc_delta, param_groups[gi].eps)),
                                         Sqrt(Add(state'[p].square_avg, param_groups[gi].eps))),
                                     DecayedGradCur))
         ]_vars

\* a second update of a parameter has been made on non-zero accumulators
C15_Witness ==
    /\ pc = "done" /\ outcome = "ok" /\ nsteps = 2
    /\ \E p \in Params : /\ applied[p] = 1 /\ state[p].step = 2
                         /\ state0[p].square_avg # 0 /\ state0[p].acc_delta # 0
                         /\ state[p].square_avg # NaN

\* C16: the skip test comes before the gradient test: a parameter in the skip set
\* that has no gradient is passed over, its identity removed from the skip set,
\* and the gradient-missing error is never raised on a parameter that was in the
\* skip set.
C16_SkipBeforeGradCheck ==
    /\ (pc = "done" /\ outcome = "TypeError") => Wrapped(Cur) \notin skip0
    /\ \A q \in Passed : Wrapped(q) \in skip0 =>
          /\ Wrapped(q) \notin grad_skip
          /\ applied[q] = 0

\* a completed step() that went past a requires_grad parameter which was in the
\* skip set and had no gradient
C16_Witness ==
    /\ pc = "done" /\ outcome = "ok"
    /\ \E q \in Passed : /\ Wrapped(q) \in skip0
                         /\ q \notin DOMAIN grad0
                         /\ requires_grad[q]

\* C18: the Buffer held in each square_avg and acc_delta slot is the one created
\* for it, and holds the slot's current value: an update overwrites the Buffers'
\* contents and never puts another Buffer in a slot.
C18_ContainersKept ==
    \A p \in DOMAIN state :
        /\ slots[p] = CreatedSlots(p)
        /\ heap[CreatedSlots(p).square_avg] = state[p].square_avg
        /\ heap[CreatedSlots(p).acc_delta] = state[p].acc_delta

\* after two updates of a parameter, the Buffers created for it hold non-zero
\* values
C18_Witness ==
    \E p \in DOMAIN state :
        /\ state[p].step = 2
        /\ heap[CreatedSlots(p).square_avg] \notin {0, NaN}
        /\ heap[CreatedSlots(p).acc_delta] \notin {0, NaN}

\* C19: during and after a step(), the skip set is what it was when step() was
\* called less the identities of the parameters the loop has gone past: step()
\* adds nothing, removes an identity only on visiting its parameter, and a step()
\* that fails restores nothing.
C19_SkipOnlyShrinks ==
    pc \in {"updates", "done"} =>
        /\ grad_skip \subseteq skip0
        /\ skip0 \ grad_skip = {Wrapped(q) : q \in Passed} \cap skip0

\* a step() that consumed one entry of the skip set and then failed, an entry
\* being left
C19_Witness ==
    /\ pc = "done" /\ outcome # "ok"
    /\ skip0 \ grad_skip # {}
    /\ grad_skip # {}

====
